---- MODULE Spec2Model ----
(***************************************************************************)
(* Model of project-stats: the /repo endpoint (src/main.py) and the        *)
(* repository statistics resolver get_stats with its commit-keyed cache    *)
(* (src/utils.py).                                                         *)
(*                                                                         *)
(* Python strings are sequences of one-character strings.  Cyrillic        *)
(* literals of the source are written transliterated, because the module   *)
(* is ASCII: "Kommit" stands for the key written at src/utils.py:147.      *)
(* None is the empty sequence <<>> where a value is Optional; a present    *)
(* value x is <<x>>.                                                       *)
(***************************************************************************)
EXTENDS Integers, Sequences, FiniteSets, TLC

(***************************************************************************)
(* Bounds of the model.                                                    *)
(***************************************************************************)
\* number of tokens after the host prefix in the URLs of the parsing checks
MaxTail == 3
\* number of candidate files the trees of the file-walk checks are drawn from
MaxFiles == 8
\* number of pushes to the remote repositories
MaxPush == 1
\* largest integer metric written to a cache file in the round-trip checks
MaxMetric == 11
\* number of tokens of a repository name in the owner/name parsing checks
MaxName == 3
\* number of tokens after https://github.com/a/b in the URLs of the path checks
MaxSuffix == 2
\* number of threads that serve requests at the same time
MaxThreads == 2

(***************************************************************************)
(* Python str operations, on sequences of characters.                      *)
(***************************************************************************)
None == << >>

Some(x) == << x >>

\* s.startswith(p)
startswith(s, p) == Len(s) >= Len(p) /\ SubSeq(s, 1, Len(p)) = p

\* s[i:] with a 1-based first index
Tail_from(s, i) == SubSeq(s, i, Len(s))

RECURSIVE lstrip(_, _)
\* s.lstrip(ch) for a one-character ch
lstrip(s, ch) == IF s /= << >> /\ Head(s) = ch THEN lstrip(Tail(s), ch) ELSE s

RECURSIVE rstrip(_, _)
\* s.rstrip(ch) for a one-character ch
rstrip(s, ch) ==
  IF s /= << >> /\ s[Len(s)] = ch THEN rstrip(SubSeq(s, 1, Len(s) - 1), ch) ELSE s

\* s.strip(ch)
strip(s, ch) == rstrip(lstrip(s, ch), ch)

RECURSIVE replace(_, _, _)
\* s.replace(old, new): leftmost non-overlapping occurrences, one pass
replace(s, old, new) ==
  IF s = << >> THEN << >>
  ELSE IF startswith(s, old)
       THEN new \o replace(Tail_from(s, Len(old) + 1), old, new)
       ELSE << Head(s) >> \o replace(Tail(s), old, new)

RECURSIVE split(_, _)
\* s.split(ch) for a one-character separator: "" gives [""]
split(s, ch) ==
  IF \A i \in 1..Len(s) : s[i] /= ch THEN << s >>
  ELSE LET i == CHOOSE k \in 1..Len(s) :
                  s[k] = ch /\ \A j \in 1..(k - 1) : s[j] /= ch
       IN  << SubSeq(s, 1, i - 1) >> \o split(Tail_from(s, i + 1), ch)

\* s.find(ch, start) with 1-based positions, 0 standing for -1
find_from(s, ch, start) ==
  IF \E k \in start..Len(s) : s[k] = ch
  THEN CHOOSE k \in start..Len(s) : s[k] = ch /\ \A j \in start..(k - 1) : s[j] /= ch
  ELSE 0

\* s.rfind(ch), 0 standing for -1
rfind(s, ch) ==
  IF \E k \in 1..Len(s) : s[k] = ch
  THEN CHOOSE k \in 1..Len(s) : s[k] = ch /\ \A j \in (k + 1)..Len(s) : s[j] /= ch
  ELSE 0

\* the prefix of s before the first character that is in stops
cut_at(s, stops) ==
  IF \E k \in 1..Len(s) : s[k] \in stops
  THEN SubSeq(s, 1, (CHOOSE k \in 1..Len(s) :
                        s[k] \in stops /\ \A j \in 1..(k - 1) : s[j] \notin stops) - 1)
  ELSE s

(***************************************************************************)
(* URL parsing: _repo_parts and the repo_name of get_stats.                *)
(***************************************************************************)
\* "https://github.com/"
HostPrefix ==
  << "h","t","t","p","s",":","/","/","g","i","t","h","u","b",".","c","o","m","/" >>

DotGit == << ".", "g", "i", "t" >>

\* urlparse(repo_url).path for a URL that starts with HostPrefix: what follows
\* the netloc, without the fragment, the query and the last segment's params
urlparse_path(repo_url) ==
  LET rest  == Tail_from(repo_url, Len(HostPrefix))
      nofq  == cut_at(rest, {"#", "?"})
      semi  == find_from(nofq, ";", rfind(nofq, "/"))
  IN  IF semi = 0 THEN nofq ELSE SubSeq(nofq, 1, semi - 1)

\* the list `parts` of _repo_parts
path_parts(repo_url) ==
  split(replace(strip(urlparse_path(repo_url), "/"), DotGit, << >>), "/")

\* _repo_parts accepting a path of one segment (`len(parts) < 1`)
_repo_parts_one(repo_url) ==
  IF ~startswith(repo_url, HostPrefix) THEN None
  ELSE LET parts == path_parts(repo_url)
       IN  IF Len(parts) < 1 THEN None ELSE Some(<< parts[1], parts[Len(parts)] >>)

\* _repo_parts: None, or Some(<<owner, name>>)
_repo_parts(repo_url) ==
  IF ~startswith(repo_url, HostPrefix) THEN None
  ELSE LET parts == path_parts(repo_url)
       IN  IF Len(parts) < 2 THEN None ELSE Some(<< parts[1], parts[2] >>)

\* repo_name of get_stats
repo_name(repo_url) ==
  LET segs == split(rstrip(repo_url, "/"), "/")
  IN  replace(segs[Len(segs)], DotGit, << >>)

(***************************************************************************)
(* Stats objects and their JSON form.  A dict is the sequence of its       *)
(* <<key, value>> items in insertion order; a value is an int or a str.    *)
(***************************************************************************)
Int_(n) == [t |-> "int", v |-> n]

Str_(s) == [t |-> "str", v |-> s]

Keys(d) == { d[i][1] : i \in 1..Len(d) }

\* d.get(k): None when the key is missing, Some(value) otherwise
dict_get(d, k) ==
  IF k \in Keys(d) THEN Some(d[CHOOSE i \in 1..Len(d) : d[i][1] = k][2]) ELSE None

\* the keys of the stats dict, src/utils.py:147-152, transliterated
K_Kommit == << "K","o","m","m","i","t" >>

K_Repozitorij == << "R","e","p","o","z","i","t","o","r","i","j" >>

K_VsegoFajlov == << "V","s","e","g","o"," ","f","a","j","l","o","v" >>

K_FajlovSKodom == << "F","a","j","l","o","v"," ","s"," ","k","o","d","o","m" >>

K_Bajt == << "B","a","j","t" >>

K_StrokKoda == << "S","t","r","o","k"," ","k","o","d","a" >>

\* the key read back by the cache-hit test, src/utils.py:135
K_commit == << "c","o","m","m","i","t" >>

Digits == << "0","1","2","3","4","5","6","7","8","9" >>

DigitSet == { Digits[i] : i \in 1..10 }

digit_val(ch) == (CHOOSE i \in 1..10 : Digits[i] = ch) - 1

RECURSIVE nat_str(_)
\* str(n) for n >= 0
nat_str(n) ==
  IF n < 10 THEN << Digits[n + 1] >> ELSE nat_str(n \div 10) \o << Digits[(n % 10) + 1] >>

\* str(n)
int_str(n) == IF n < 0 THEN << "-" >> \o nat_str(0 - n) ELSE nat_str(n)

RECURSIVE json_escape(_)
\* the body of a JSON string literal: quote and backslash are escaped
json_escape(s) ==
  IF s = << >> THEN << >>
  ELSE (IF Head(s) \in { "\"", "\\" } THEN << "\\", Head(s) >> ELSE << Head(s) >>)
       \o json_escape(Tail(s))

json_string(s) == << "\"" >> \o json_escape(s) \o << "\"" >>

\* every value written as a string literal
json_value_quoted(val) == json_string(IF val.t = "int" THEN int_str(val.v) ELSE val.v)

json_value(val) == IF val.t = "int" THEN int_str(val.v) ELSE json_string(val.v)

RECURSIVE json_items(_)
json_items(d) ==
  IF d = << >> THEN << >>
  ELSE json_string(d[1][1]) \o << ":", " " >> \o json_value(d[1][2])
       \o (IF Len(d) > 1 THEN << ",", " " >> \o json_items(Tail(d)) ELSE << >>)

\* json.dumps(stats, ensure_ascii=False)
json_dumps(d) == << "{" >> \o json_items(d) \o << "}" >>

RECURSIVE skip_ws(_, _)
skip_ws(s, i) == IF i <= Len(s) /\ s[i] = " " THEN skip_ws(s, i + 1) ELSE i

RECURSIVE scan_string(_, _, _)
\* i is just after the opening quote: the decoded string and the index after
\* the closing quote
scan_string(s, i, acc) ==
  IF s[i] = "\"" THEN [v |-> Str_(acc), next |-> i + 1]
  ELSE IF s[i] = "\\" THEN scan_string(s, i + 2, Append(acc, s[i + 1]))
  ELSE scan_string(s, i + 1, Append(acc, s[i]))

RECURSIVE scan_nat(_, _, _)
scan_nat(s, i, acc) ==
  IF i <= Len(s) /\ s[i] \in DigitSet
  THEN scan_nat(s, i + 1, (acc * 10) + digit_val(s[i]))
  ELSE [v |-> acc, next |-> i]

\* a JSON value at index i: a string literal or a number
scan_value(s, i) ==
  IF s[i] = "\"" THEN scan_string(s, i + 1, << >>)
  ELSE IF s[i] = "-"
       THEN LET r == scan_nat(s, i + 1, 0) IN [v |-> Int_(0 - r.v), next |-> r.next]
       ELSE LET r == scan_nat(s, i, 0) IN [v |-> Int_(r.v), next |-> r.next]

RECURSIVE scan_items(_, _, _)
\* the items of a JSON object from index i on, up to its closing brace
scan_items(s, i, acc) ==
  LET j == skip_ws(s, i)
  IN  IF s[j] = "}" THEN acc
      ELSE IF s[j] = "," THEN scan_items(s, j + 1, acc)
      ELSE LET k   == scan_string(s, j + 1, << >>)
               c   == skip_ws(s, k.next)
               val == scan_value(s, skip_ws(s, c + 1))
           IN  scan_items(s, val.next, Append(acc, << k.v.v, val.v >>))

\* json.loads of the text of a JSON object
json_loads(s) == scan_items(s, skip_ws(s, 1) + 1, << >>)

(***************************************************************************)
(* The cache directory: a function from file names to file contents.       *)
(***************************************************************************)
DotJson == << ".", "j", "s", "o", "n" >>

\* _cache_path_for: the file name under cache_dir
_cache_path_for(repo_url) ==
  replace(replace(repo_url, << "/" >>, << "_" >>), << ":" >>, << "_" >>) \o DotJson

\* _load_cached_stats
_load_cached_stats(repo_url, cache_dir) ==
  LET p == _cache_path_for(repo_url)
  IN  IF p \notin DOMAIN cache_dir THEN None ELSE Some(json_loads(cache_dir[p]))

\* _save_cached_stats: the cache directory after the write
_save_cached_stats(repo_url, cache_dir, stats) ==
  LET p == _cache_path_for(repo_url)
  IN  [f \in (DOMAIN cache_dir) \cup {p} |->
         IF f = p THEN json_dumps(stats) ELSE cache_dir[f]]

(***************************************************************************)
(* Working copies and the three walks of get_stats.  A tree is the set of  *)
(* its regular files; a file is [dirs, name, content]: the directories     *)
(* from the root of the working copy down to the file, the file name and   *)
(* the bytes of the file (ASCII text).                                     *)
(***************************************************************************)
File(dirs, name, content) == [dirs |-> dirs, name |-> name, content |-> content]

UPPER == << "A","B","C","D","E","F","G","H","I","J","K","L","M",
            "N","O","P","Q","R","S","T","U","V","W","X","Y","Z" >>

LOWER == << "a","b","c","d","e","f","g","h","i","j","k","l","m",
            "n","o","p","q","r","s","t","u","v","w","x","y","z" >>

\* s.lower()
lower(s) ==
  [i \in 1..Len(s) |->
     IF \E k \in 1..26 : UPPER[k] = s[i]
     THEN LOWER[CHOOSE k \in 1..26 : UPPER[k] = s[i]]
     ELSE s[i]]

\* Path(f).suffix for a file name f: from the last dot on, when that dot is
\* neither the first nor the last character
suffix(f) ==
  LET i == rfind(f, ".")
  IN  IF 1 < i /\ i < Len(f) THEN Tail_from(f, i) ELSE << >>

DEFAULT_CODE_EXTS ==
  { << ".", "p", "y" >>, << ".", "j", "s" >>, << ".", "t", "s" >>, << ".", "g", "o" >>,
    << ".", "r", "s" >>, << ".", "j", "a", "v", "a" >>, << ".", "c" >>,
    << ".", "c", "p", "p" >>, << ".", "h" >>, << ".", "h", "p", "p" >>,
    << ".", "m", "d" >>, << ".", "h", "t", "m", "l" >>, << ".", "c", "s", "s" >>,
    << ".", "r", "b" >>, << ".", "p", "h", "p" >> }

\* `dirs` of one os.walk step: the names of the directories directly under root
walk_dirs(tree, root) ==
  { f.dirs[Len(root) + 1] :
      f \in { g \in tree : Len(g.dirs) > Len(root) /\ SubSeq(g.dirs, 1, Len(root)) = root } }

\* `files` of one os.walk step
walk_files(tree, root) == { f \in tree : f.dirs = root }

\* the walk that keeps .git in dirs
prune_nothing(dirs) == dirs

\* `if ".git" in dirs: dirs.remove(".git")`
prune_git(dirs) == dirs \ { DotGit }

RECURSIVE os_walk(_, _)
\* the roots os.walk yields from root on, top-down, with the pruned dirs
os_walk(tree, root) ==
  { root } \cup UNION { os_walk(tree, Append(root, d)) : d \in prune_git(walk_dirs(tree, root)) }

\* the files the loops `for root, dirs, files ... for f in files` go through
walked_files(tree) == UNION { walk_files(tree, root) : root \in os_walk(tree, << >>) }

\* p.stat().st_size
st_size(f) == Len(f.content)

RECURSIVE count_lines(_)
\* `for _ in fh: count += 1` in text mode with universal newlines: a line ends
\* at "\n", "\r" or "\r\n", and an unterminated last line counts
count_lines(c) ==
  IF c = << >> THEN 0
  ELSE IF \A i \in 1..Len(c) : c[i] \notin { "\n", "\r" } THEN 1
  ELSE LET i == CHOOSE k \in 1..Len(c) :
                  c[k] \in { "\n", "\r" } /\ \A j \in 1..(k - 1) : c[j] \notin { "\n", "\r" }
           n == IF c[i] = "\r" /\ i < Len(c) /\ c[i + 1] = "\n" THEN i + 2 ELSE i + 1
       IN  1 + count_lines(Tail_from(c, n))

RECURSIVE sum_sizes(_)
sum_sizes(fs) ==
  IF fs = {} THEN 0 ELSE LET f == CHOOSE g \in fs : TRUE IN st_size(f) + sum_sizes(fs \ { f })

RECURSIVE sum_lines(_)
sum_lines(fs) ==
  IF fs = {} THEN 0
  ELSE LET f == CHOOSE g \in fs : TRUE IN count_lines(f.content) + sum_lines(fs \ { f })

is_code(f, code_exts) == lower(suffix(f.name)) \in code_exts

\* p.is_file(): the entries of a tree are regular files
is_file(f) == TRUE

\* _repo_size_bytes
_repo_size_bytes(tree) == sum_sizes({ f \in walked_files(tree) : is_file(f) })

\* _file_counts whose total misses the files of the subdirectories
_file_counts_top(tree, code_exts) ==
  << Cardinality(walk_files(tree, << >>)),
     Cardinality({ f \in walked_files(tree) : is_code(f, code_exts) }) >>

\* _file_counts: <<total, code_files>>
_file_counts(tree, code_exts) ==
  << Cardinality(walked_files(tree)),
     Cardinality({ f \in walked_files(tree) : is_code(f, code_exts) }) >>

\* _lines_of_code
_lines_of_code(tree, code_exts) ==
  sum_lines({ f \in walked_files(tree) : is_code(f, code_exts) })

(***************************************************************************)
(* The environment: the repositories on the hosting service, its commits   *)
(* API and the version-control tool.                                       *)
(***************************************************************************)
R_ab == << << "a" >>, << "b" >> >>

R_cb == << << "c" >>, << "b" >> >>

\* the repositories that exist on the hosting service, as <<owner, name>>
RemoteRepos == { R_ab, R_cb }

\* the id of the n-th commit of repository r
sha(r, n) == r[1] \o nat_str(n)

L3 == << "x", "\n", "x", "\n", "x", "\n" >>

L5 == << "x", "\n", "x", "\r", "\n", "x", "\r", "x", "\n", "x" >>

F_a_py == File(<< >>, << "a", ".", "p", "y" >>, L3)

F_b_txt == File(<< >>, << "b", ".", "t", "x", "t" >>, L5)

\* the metadata directory a clone creates
git_dir(r, n) ==
  { File(<< DotGit >>, << "H", "E", "A", "D" >>, sha(r, n)),
    File(<< DotGit, << "h" >> >>, << "h", ".", "p", "y" >>, L3) }

\* the files of repository r at its n-th commit
content_at(r, n) ==
  (IF r = R_ab THEN { F_a_py, F_b_txt }
   ELSE { File(<< << "s" >> >>, << "C", ".", "P", "Y" >>, << "x" >>) })
  \cup { File(<< << "d" >> >>, << "r", ".", "m", "d" >>, nat_str(10 ^ k)) : k \in 2..n }

\* the repository a clone URL designates for the hosting service: the path
\* after the host, without trailing slashes and one ".git" suffix, is owner/name
git_remote(repo_url) ==
  IF ~startswith(repo_url, HostPrefix) THEN None
  ELSE LET p  == rstrip(Tail_from(repo_url, Len(HostPrefix) + 1), "/")
           q  == IF Len(p) > 4 /\ Tail_from(p, Len(p) - 3) = DotGit
                 THEN SubSeq(p, 1, Len(p) - 4) ELSE p
           ps == split(q, "/")
       IN  IF Len(ps) = 2 /\ << ps[1], ps[2] >> \in RemoteRepos
           THEN Some(<< ps[1], ps[2] >>) ELSE None

\* a response of GET /repos/{owner}/{name}/commits?per_page=1.  raised: the
\* request itself failed (timeout, connection error); json: "invalid" (not
\* JSON), "dict" (a JSON object), "list"; items: the elements of the list,
\* each [is_dict, sha] with sha the Optional value of its "sha" member
Resp(raised, status, json, items) ==
  [raised |-> raised, status |-> status, json |-> json, items |-> items]

Elem(is_dict, sha_) == [is_dict |-> is_dict, sha |-> sha_]

\* what the service can answer for owner/name while the heads are `heads`
api_responses(owner, name, heads) ==
  { Resp(TRUE, 0, "invalid", << >>),
    Resp(FALSE, 500, "invalid", << >>),
    Resp(FALSE, 200, "invalid", << >>),
    Resp(FALSE, 200, "dict", << >>),
    Resp(FALSE, 200, "list", << >>),
    Resp(FALSE, 200, "list", << Elem(FALSE, None) >>),
    Resp(FALSE, 200, "list", << Elem(TRUE, None) >>) }
  \cup (IF << owner, name >> \in RemoteRepos
        THEN { Resp(FALSE, 200, "list",
                    << Elem(TRUE, Some(sha(<< owner, name >>, heads[<< owner, name >>]))) >>) }
        ELSE { Resp(FALSE, 404, "dict", << >>) })

\* the outcome of a function call: it returns a value or raises
Return(v) == [raises |-> FALSE, value |-> v]

Raise == [raises |-> TRUE, value |-> None]

\* _get_remote_commit after the request, lines 42-47
_get_remote_commit(resp) ==
  IF resp.raised THEN Raise
  ELSE IF resp.status /= 200 THEN Return(None)
  ELSE IF resp.json = "invalid" THEN Raise
  ELSE IF resp.json /= "list" \/ resp.items = << >> THEN Return(None)
  ELSE IF ~resp.items[1].is_dict THEN Raise
  ELSE Return(resp.items[1].sha)

\* what the version-control tool does in one call of get_stats: whether
\* clone or fetch succeeds, whether rev-parse succeeds, and what rev-parse
\* prints
Git(update_ok, revparse_ok, local_sha) ==
  [update_ok |-> update_ok, revparse_ok |-> revparse_ok, local_sha |-> local_sha]

\* a working copy: the repository it was cloned from, the commit checked out
\* and the files on disk
WorkingCopy(r, n) == [origin |-> r, head |-> n, tree |-> content_at(r, n) \cup git_dir(r, n)]

\* what Path(config.REPO_FOLDER) / repo_name designates: a child of the
\* storage directory, the storage directory itself ("" and "." add nothing to
\* the path) or its parent ("..")
path_kind(local_path) ==
  IF local_path \in { << >>, << "." >> } THEN "storage"
  ELSE IF local_path = << ".", "." >> THEN "parent"
  ELSE "child"

\* local_path.exists(), line 51.  The storage directory is made by the first
\* clone into it, and its parent resolves only through it
exists(local_path, repo_folder) ==
  IF path_kind(local_path) = "child" THEN local_path \in DOMAIN repo_folder
  ELSE DOMAIN repo_folder /= {}

\* the files below the storage directory: those of every working copy, under
\* the name of its directory
storage_tree(repo_folder) ==
  UNION { { File(<< d >> \o f.dirs, f.name, f.content) : f \in repo_folder[d].tree } :
            d \in DOMAIN repo_folder }

\* config.REPO_FOLDER and config.REPO_CACHES, lines 15-16 of config.py
REPO_FOLDER == << ".", "r", "e", "p", "o" >>

REPO_CACHES == << ".", "r", "e", "p", "o", "_", "c", "a", "c", "h", "e" >>

\* the files of the application next to its two directories
AppFiles == { File(<< >>, << "m", "a", "i", "n", ".", "p", "y" >>, L5) }

\* the files below the parent of the storage directory: the application's
\* own, the working copies and the cache files
parent_tree(repo_folder, cache_dir) ==
  AppFiles
  \cup { File(<< REPO_FOLDER >> \o f.dirs, f.name, f.content) : f \in storage_tree(repo_folder) }
  \cup { File(<< REPO_CACHES >>, c, cache_dir[c]) : c \in DOMAIN cache_dir }

\* the files os.walk(local_path) finds
tree_at(local_path, repo_folder, cache_dir) ==
  IF path_kind(local_path) = "child" THEN repo_folder[local_path].tree
  ELSE IF path_kind(local_path) = "storage" THEN storage_tree(repo_folder)
  ELSE parent_tree(repo_folder, cache_dir)

\* _clone_or_fetch: the repo folder afterwards.  A shallow clone checks out
\* the remote head; a fetch updates the remote-tracking refs under .git and
\* leaves HEAD and the files alone
_clone_or_fetch(repo_url, local_path, repo_folder, heads) ==
  IF ~exists(local_path, repo_folder) /\ path_kind(local_path) = "child"
  THEN LET r == git_remote(repo_url)[1]
       IN  [d \in (DOMAIN repo_folder) \cup { local_path } |->
              IF d = local_path THEN WorkingCopy(r, heads[r]) ELSE repo_folder[d]]
  ELSE repo_folder

\* _clone_or_fetch cloning whether or not the path exists
update_command_clone(local_path, repo_folder) == "clone"

\* the command _clone_or_fetch runs
update_command(local_path, repo_folder) ==
  IF ~exists(local_path, repo_folder) THEN "clone" ELSE "fetch"

\* whether that command can succeed at all: a fetch in an existing
\* directory, or a clone of a URL that designates a repository into a child
\* of the storage directory
update_possible(repo_url, local_path, repo_folder) ==
  \/ exists(local_path, repo_folder)
  \/ path_kind(local_path) = "child" /\ git_remote(repo_url) /= None

\* the stats tagged with the commit id of the local clone
stats_commit_local(remote_sha, local_sha) == local_sha

\* the line of get_stats that picks the commit id of the stats, line 147:
\* the remote one, the local one is fetched and not used
stats_commit(remote_sha, local_sha) == remote_sha

\* the stats dict of lines 146-153
make_stats(remote_sha, repo_url, total_files, code_files, size_bytes, total_lines) ==
  << << K_Kommit, Str_(remote_sha) >>,
     << K_Repozitorij, Str_(repo_url) >>,
     << K_VsegoFajlov, Int_(total_files) >>,
     << K_FajlovSKodom, Int_(code_files) >>,
     << K_Bajt, Int_(size_bytes) >>,
     << K_StrokKoda, Int_(total_lines) >> >>

\* the cache-hit test of line 135
cache_hit(cached, remote_sha) ==
  /\ cached /= None
  /\ cached[1] /= << >>
  /\ dict_get(cached[1], K_commit) = Some(Str_(remote_sha))

\* what one call did besides returning: the API requests, the commands of the
\* version-control tool, the accesses to the cache and to the repo folder
Trace(api, git, cache_read, cache_write, folder_access) ==
  [api |-> api, git |-> git, cache_read |-> cache_read, cache_write |-> cache_write,
   folder_access |-> folder_access]

NoTrace == Trace(0, << >>, FALSE, FALSE, FALSE)

\* the result of get_stats: the outcome, the state of the two directories
\* afterwards, the remote commit and the cache entry it saw, and its trace
Result(out, repo_folder, cache_dir, remote_sha, cached, trace) ==
  [out |-> out, repo_folder |-> repo_folder, cache_dir |-> cache_dir,
   remote_sha |-> remote_sha, cached |-> cached, trace |-> trace]

\* get_stats(repo_url, config) with the default code_exts
get_stats(repo_url, repo_folder, cache_dir, heads, resp, git) ==
  LET parts      == _repo_parts(repo_url)
      local_path == repo_name(repo_url)
      remote     == _get_remote_commit(resp)
      cached     == _load_cached_stats(repo_url, cache_dir)
      folder2    == _clone_or_fetch(repo_url, local_path, repo_folder, heads)
      cmd        == update_command(local_path, repo_folder)
      tree       == tree_at(local_path, folder2, cache_dir)
      counts     == _file_counts(tree, DEFAULT_CODE_EXTS)
      stats      == make_stats(stats_commit(remote.value[1], git.local_sha), repo_url, counts[1], counts[2],
                               _repo_size_bytes(tree),
                               _lines_of_code(tree, DEFAULT_CODE_EXTS))
  IN  IF parts = None
      THEN Result(Return(None), repo_folder, cache_dir, None, None, NoTrace)
      ELSE IF remote.raises
      THEN Result(Raise, repo_folder, cache_dir, None, None,
                  Trace(1, << >>, FALSE, FALSE, FALSE))
      ELSE IF remote.value = None
      THEN Result(Return(None), repo_folder, cache_dir, None, None,
                  Trace(1, << >>, FALSE, FALSE, FALSE))
      ELSE IF cache_hit(cached, remote.value[1])
      THEN Result(Return(cached), repo_folder, cache_dir, remote.value, cached,
                  Trace(1, << >>, TRUE, FALSE, FALSE))
      ELSE IF ~(git.update_ok /\ update_possible(repo_url, local_path, repo_folder))
      THEN Result(Raise, repo_folder, cache_dir, remote.value, cached,
                  Trace(1, << cmd >>, TRUE, FALSE, TRUE))
      ELSE IF ~git.revparse_ok
      THEN Result(Raise, folder2, cache_dir, remote.value, cached,
                  Trace(1, << cmd, "rev-parse" >>, TRUE, FALSE, TRUE))
      ELSE Result(Return(Some(stats)), folder2,
                  _save_cached_stats(repo_url, cache_dir, stats), remote.value, cached,
                  Trace(1, << cmd, "rev-parse" >>, TRUE, TRUE, TRUE))

Response(status, body) == [status |-> status, body |-> body]

\* what get_stats_image did: whether it called get_stats, and the response
\* it returned or the exception that left it
Handled(called, response) == [called |-> called, response |-> response]

\* get_stats_image with the test of line 24 inverted
get_stats_image_inverted(repo, result) ==
  IF repo = None \/ repo[1] = << >>
  THEN Handled(FALSE, Return(Response(400, "error: no repo")))
  ELSE IF result.out.raises THEN Handled(TRUE, Raise)
  ELSE IF result.out.value = None \/ result.out.value[1] = << >>
  THEN Handled(TRUE, Return(Response(200, "image/png")))
  ELSE Handled(TRUE, Return(Response(500, "error: no stats")))

\* get_stats_image answering 400 when get_stats returns nothing
get_stats_image_400(repo, result) ==
  IF repo = None \/ repo[1] = << >>
  THEN Handled(FALSE, Return(Response(400, "error: no repo")))
  ELSE IF result.out.raises THEN Handled(TRUE, Raise)
  ELSE IF result.out.value = None \/ result.out.value[1] = << >>
  THEN Handled(TRUE, Return(Response(400, "error: no stats")))
  ELSE Handled(TRUE, Return(Response(200, "image/png")))

\* get_stats_image turning an exception of get_stats into the 500 answer
get_stats_image_caught(repo, result) ==
  IF repo = None \/ repo[1] = << >>
  THEN Handled(FALSE, Return(Response(400, "error: no repo")))
  ELSE IF result.out.raises \/ result.out.value = None \/ result.out.value[1] = << >>
  THEN Handled(TRUE, Return(Response(500, "error: no stats")))
  ELSE Handled(TRUE, Return(Response(200, "image/png")))

\* get_stats_image.  repo is the Optional query parameter, result what the
\* call of get_stats does when the handler makes it
get_stats_image(repo, result) ==
  IF repo = None \/ repo[1] = << >>
  THEN Handled(FALSE, Return(Response(400, "error: no repo")))
  ELSE IF result.out.raises THEN Handled(TRUE, Raise)
  ELSE IF result.out.value = None \/ result.out.value[1] = << >>
  THEN Handled(TRUE, Return(Response(500, "error: no stats")))
  ELSE Handled(TRUE, Return(Response(200, "image/png")))

(***************************************************************************)
(* The state.                                                              *)
(***************************************************************************)
VARIABLES
  remoteHead,   \* the number of the head commit of each remote repository
  repoFolder,   \* config.REPO_FOLDER: directory name -> working copy
  cacheDir,     \* config.REPO_CACHES: file name -> text of the file
  urls,         \* the repository URLs clients ask for
  computed,     \* history: URL -> remote commit id of its last computed stats
  last,         \* the most recent operation: its inputs and what it did
  calls         \* the calls of get_stats in progress, one per serving thread

vars == << remoteHead, repoFolder, cacheDir, urls, computed, last, calls >>

EmptyDir == [d \in {} |-> << >>]

Idle == [op |-> "none"]

\* the URLs of the requests of Spec
U_ab == HostPrefix \o << "a", "/", "b" >>

U_cb == HostPrefix \o << "c", "/", "b" >>

U_a == HostPrefix \o << "a" >>

U_http == << "h","t","t","p",":","/","/","g","i","t","h","u","b",".","c","o","m","/","a","/","b" >>

ReqURLs == { U_ab, U_cb, U_a, U_http }

Init ==
  /\ remoteHead = [r \in RemoteRepos |-> 1]
  /\ calls = EmptyDir
  /\ repoFolder = EmptyDir
  /\ cacheDir = EmptyDir
  /\ urls = ReqURLs
  /\ computed = EmptyDir
  /\ last = Idle

\* the answers the API can give to the lookup get_stats makes for repo_url
RespChoices(repo_url) ==
  LET parts == _repo_parts(repo_url)
  IN  IF parts = None THEN { Resp(TRUE, 0, "invalid", << >>) }
      ELSE api_responses(parts[1][1], parts[1][2], remoteHead)

\* the commit rev-parse prints in a directory that is no working copy: HEAD
\* of the repository the application itself is deployed from
AppHead == << "p", "0" >>

\* _local_commit: HEAD of the working copy at the path of repo_url, after
\* the update
_local_commit(repo_url) ==
  LET local_path == repo_name(repo_url)
      folder2    == _clone_or_fetch(repo_url, local_path, repoFolder, remoteHead)
  IN  IF ~update_possible(repo_url, local_path, repoFolder) THEN << >>
      ELSE IF path_kind(local_path) /= "child" THEN AppHead
      ELSE sha(folder2[local_path].origin, folder2[local_path].head)

\* what the version-control tool can do in a call for repo_url
GitChoices(repo_url, resp) ==
  LET remote == _get_remote_commit(resp)
  IN  IF _repo_parts(repo_url) = None \/ remote.raises \/ remote.value = None
      THEN { Git(TRUE, TRUE, << >>) }
      ELSE { Git(ok[1], ok[2], _local_commit(repo_url)) :
               ok \in { << FALSE, TRUE >>, << TRUE, FALSE >>, << TRUE, TRUE >> } }

\* the URL the handler passes to get_stats, "" for an absent parameter, which
\* never reaches get_stats
url_of(repo) == IF repo = None THEN << >> ELSE repo[1]

\* GET /repo?repo=<repo>: the whole handler, get_stats included
Request(repo) ==
  \E resp \in RespChoices(url_of(repo)) : \E git \in GitChoices(url_of(repo), resp) :
  \E result \in { get_stats(url_of(repo), repoFolder, cacheDir, remoteHead, resp, git) } :
  \E h \in { get_stats_image(repo, result) } :
    /\ repoFolder' = IF h.called THEN result.repo_folder ELSE repoFolder
    /\ cacheDir' = IF h.called THEN result.cache_dir ELSE cacheDir
    /\ computed' =
         IF h.called /\ result.trace.cache_write
         THEN [u \in (DOMAIN computed) \cup { repo[1] } |->
                 IF u = repo[1] THEN result.remote_sha[1] ELSE computed[u]]
         ELSE computed
    /\ last' = IF h.called
               THEN [op |-> "request", repo |-> repo, called |-> TRUE,
                     resp |-> resp, git |-> git, out |-> result.out,
                     remote_sha |-> result.remote_sha, cached |-> result.cached,
                     trace |-> result.trace, response |-> h.response]
               ELSE [op |-> "request", repo |-> repo, called |-> FALSE,
                     response |-> h.response]
    /\ UNCHANGED << remoteHead, urls, calls >>

\* a commit is pushed to a remote repository
Push(r) ==
  /\ remoteHead[r] + remoteHead[CHOOSE q \in RemoteRepos : q /= r] < MaxPush + 2
  /\ remoteHead' = [remoteHead EXCEPT ![r] = @ + 1]
  /\ last' = [op |-> "push"]
  /\ UNCHANGED << repoFolder, cacheDir, urls, computed, calls >>

Next ==
  \/ \E repo \in { None, Some(<< >>) } \cup { Some(u) : u \in urls } : Request(repo)
  \/ \E r \in RemoteRepos : Push(r)

Spec == Init /\ [][Next]_vars

(***************************************************************************)
(* SpecUrl: one client URL drawn from the URLs built of at most MaxTail    *)
(* tokens after a host prefix, and the requests for it.                    *)
(***************************************************************************)
HttpPrefix ==
  << "h","t","t","p",":","/","/","g","i","t","h","u","b",".","c","o","m","/" >>

Tokens == { << "a" >>, << "b" >>, << "/" >>, DotGit, << "?" >>, << ".", "." >>, << "_" >> }

RECURSIVE Tails(_)
Tails(n) ==
  IF n = 0 THEN { << >> }
  ELSE Tails(n - 1) \cup { t \o k : t \in Tails(n - 1), k \in Tokens }

TokenURLs == { pre \o t : pre \in { HostPrefix, HttpPrefix }, t \in Tails(MaxTail) }

InitUrl ==
  /\ remoteHead = [r \in RemoteRepos |-> 1]
  /\ calls = EmptyDir
  /\ repoFolder = EmptyDir
  /\ cacheDir = EmptyDir
  /\ urls \in { { u } : u \in TokenURLs }
  /\ computed = EmptyDir
  /\ last = Idle

NextUrl == \E repo \in { None, Some(<< >>) } \cup { Some(u) : u \in urls } : Request(repo)

SpecUrl == InitUrl /\ [][NextUrl]_vars

(***************************************************************************)
(* SpecWalk: the three walks on one working copy, whose tree is any subset *)
(* of the first MaxFiles candidate files.                                  *)
(***************************************************************************)
CandidateFiles ==
  << F_a_py,
     F_b_txt,
     File(<< DotGit >>, << "H", "E", "A", "D" >>, << "a", "1" >>),
     File(<< DotGit, << "h" >> >>, << "h", ".", "p", "y" >>, L3),
     File(<< << "s" >>, DotGit >>, << "k", ".", "j", "s" >>, L5),
     File(<< << "s" >> >>, << "C", ".", "P", "Y" >>, << "x" >>),
     File(<< << ".", "g", "i", "t", "h", "u", "b" >> >>, << "w", ".", "j", "s" >>, << "x", "\r" >>),
     File(<< << "t" >> >>, DotGit, << "g", "\n" >>),
     File(<< >>, << ".", "p", "y" >>, L3),
     File(<< << "s" >>, << "g", "i", "t" >> >>, << "r", ".", "m", "d" >>, << >>) >>

WalkTrees ==
  SUBSET { CandidateFiles[i] :
             i \in 1..(IF MaxFiles < Len(CandidateFiles) THEN MaxFiles ELSE Len(CandidateFiles)) }

InitWalk ==
  /\ remoteHead = [r \in RemoteRepos |-> 1]
  /\ calls = EmptyDir
  /\ repoFolder \in { [d \in { << "b" >> } |-> [origin |-> R_ab, head |-> 1, tree |-> t]] :
                        t \in WalkTrees }
  /\ cacheDir = EmptyDir
  /\ urls = {}
  /\ computed = EmptyDir
  /\ last = Idle

\* lines 142-144 of get_stats on the working copy
Walk ==
  /\ last = Idle
  /\ \E tree \in { repoFolder[<< "b" >>].tree } :
       last' = [op |-> "walk",
                counts |-> _file_counts(tree, DEFAULT_CODE_EXTS),
                total_lines |-> _lines_of_code(tree, DEFAULT_CODE_EXTS),
                size_bytes |-> _repo_size_bytes(tree)]
  /\ UNCHANGED << remoteHead, repoFolder, cacheDir, urls, computed, calls >>

NextWalk == Walk

SpecWalk == InitWalk /\ [][NextWalk]_vars

(***************************************************************************)
(* SpecCache: one stats object is saved for a URL and loaded back.         *)
(***************************************************************************)
CacheCommits == { << "a", "1" >>, << "1", "2" >>, << "\"", "\\" >>, << >> }

CacheURLs == { U_ab, U_cb \o DotGit, U_http, << "a", "\"", ":", "\\", "/" >> }

CacheStats ==
  { make_stats(c, u, t, k, b, t) :
      c \in CacheCommits, u \in CacheURLs, t \in 0..MaxMetric,
      k \in { 0, 9 }, b \in { 0 - 1, (10 * MaxMetric) + 7 } }

InitCache ==
  /\ remoteHead = [r \in RemoteRepos |-> 1]
  /\ calls = EmptyDir
  /\ repoFolder = EmptyDir
  /\ cacheDir \in { EmptyDir,
                    [f \in { _cache_path_for(U_cb) } |-> json_dumps(make_stats(<< "c", "1" >>, U_cb, 1, 1, 1, 1))] }
  /\ urls = {}
  /\ computed = EmptyDir
  /\ \E u \in CacheURLs, st \in CacheStats : last = [op |-> "input", url |-> u, stats |-> st]

Save ==
  /\ last.op = "input"
  /\ cacheDir' = _save_cached_stats(last.url, cacheDir, last.stats)
  /\ last' = [last EXCEPT !.op = "saved"]
  /\ UNCHANGED << remoteHead, repoFolder, urls, computed, calls >>

Load ==
  /\ last.op = "saved"
  /\ last' = [op |-> "loaded", url |-> last.url, stats |-> last.stats,
              loaded |-> _load_cached_stats(last.url, cacheDir)]
  /\ UNCHANGED << remoteHead, repoFolder, cacheDir, urls, computed, calls >>

NextCache == Save \/ Load

SpecCache == InitCache /\ [][NextCache]_vars

(***************************************************************************)
(* SpecParts: one URL of the form https://github.com/<owner>/<name> with   *)
(* an optional .git suffix or trailing slash, and the remote commit lookup *)
(* made for it.  A name is built of at most MaxName tokens and, as on the  *)
(* hosting service, does not end in ".git".                                *)
(***************************************************************************)
NameTokens == { << "a" >>, DotGit, << "h", "u", "b" >> }

RECURSIVE TokenSeqs(_)
TokenSeqs(n) ==
  IF n = 0 THEN { << >> }
  ELSE TokenSeqs(n - 1) \cup { t \o k : t \in TokenSeqs(n - 1), k \in NameTokens }

Owners == { << "a" >>, << "c" >> }

Names ==
  { n \in TokenSeqs(MaxName) :
      n /= << >> /\ ~(Len(n) >= 4 /\ Tail_from(n, Len(n) - 3) = DotGit) }

Suffixes == { << >>, DotGit, << "/" >> }

\* the URL the API request of _get_remote_commit goes to, lines 32-37: None
\* when the URL is refused
commits_url(repo_url) ==
  LET parts == _repo_parts(repo_url)
  IN  IF parts = None THEN None
      ELSE Some(<< "a","p","i",".","g","i","t","h","u","b",".","c","o","m","/","r","e","p","o","s","/" >>
                \o parts[1][1] \o << "/" >> \o parts[1][2]
                \o << "/","c","o","m","m","i","t","s" >>)

InitParts ==
  /\ remoteHead = [r \in RemoteRepos |-> 1]
  /\ calls = EmptyDir
  /\ repoFolder = EmptyDir
  /\ cacheDir = EmptyDir
  /\ urls = {}
  /\ computed = EmptyDir
  /\ \E o \in Owners, n \in Names, sfx \in Suffixes :
       last = [op |-> "input", owner |-> o, name |-> n,
               url |-> HostPrefix \o o \o << "/" >> \o n \o sfx]

\* _get_remote_commit up to its request: the parts and the URL requested
Lookup ==
  /\ last.op = "input"
  /\ last' = [op |-> "lookup", owner |-> last.owner, name |-> last.name, url |-> last.url,
              parts |-> _repo_parts(last.url), request |-> commits_url(last.url)]
  /\ UNCHANGED << remoteHead, repoFolder, cacheDir, urls, computed, calls >>

NextParts == Lookup

SpecParts == InitParts /\ [][NextParts]_vars

(***************************************************************************)
(* SpecPair: the requests for two distinct URLs that continue              *)
(* https://github.com/a/b with at most MaxSuffix tokens.                   *)
(***************************************************************************)
SuffixTokens == { << "/" >>, << "_" >>, << ".", "." >>, DotGit }

RECURSIVE SuffixSeqs(_)
SuffixSeqs(n) ==
  IF n = 0 THEN { << >> }
  ELSE SuffixSeqs(n - 1) \cup { t \o k : t \in SuffixSeqs(n - 1), k \in SuffixTokens }

SuffixURLs == { U_ab \o t : t \in SuffixSeqs(MaxSuffix) }

InitPair ==
  /\ remoteHead = [r \in RemoteRepos |-> 1]
  /\ calls = EmptyDir
  /\ repoFolder = EmptyDir
  /\ cacheDir = EmptyDir
  /\ urls \in { { u1, u2 } : u1, u2 \in SuffixURLs } \ { { u } : u \in SuffixURLs }
  /\ computed = EmptyDir
  /\ last = Idle

NextPair == \E u \in urls : Request(Some(u))

SpecPair == InitPair /\ [][NextPair]_vars

(***************************************************************************)
(* SpecRace: MaxThreads threads of the server each make one call of        *)
(* get_stats, and the calls interleave at every access to the remote API,  *)
(* the version-control tool and the two directories.                       *)
(***************************************************************************)
Threads == 1..MaxThreads

\* a call of get_stats: the statement it is at, its argument and locals, what
\* local_path.exists() told it, the commands it has run and its outcome
Call(pc, repo_url, remote_sha, cached, absent, cmds, stats, out) ==
  [pc |-> pc, repo_url |-> repo_url, remote_sha |-> remote_sha, cached |-> cached,
   absent |-> absent, cmds |-> cmds, stats |-> stats, out |-> out]

NotCalled == Call("idle", << >>, None, None, FALSE, << >>, None, None)

\* the call has returned or raised
finish(call, out) == [call EXCEPT !.pc = "done", !.out = Some(out)]

InitRace ==
  /\ remoteHead = [r \in RemoteRepos |-> 1]
  /\ calls = [t \in Threads |-> NotCalled]
  /\ repoFolder = EmptyDir
  /\ cacheDir = EmptyDir
  /\ urls = { U_ab, U_cb }
  /\ computed = EmptyDir
  /\ last = Idle

\* lines 121-128: the thread calls get_stats, which parses the URL
Begin(t) ==
  /\ calls[t].pc = "idle"
  /\ \E u \in urls :
       calls' = [calls EXCEPT ![t] =
                   IF _repo_parts(u) = None THEN finish([@ EXCEPT !.repo_url = u], Return(None))
                   ELSE [@ EXCEPT !.pc = "remote", !.repo_url = u]]
  /\ UNCHANGED << remoteHead, repoFolder, cacheDir, urls, computed, last >>

\* lines 130-132: the remote commit lookup
RemoteCommit(t) ==
  /\ calls[t].pc = "remote"
  /\ \E resp \in RespChoices(calls[t].repo_url) :
     \E remote \in { _get_remote_commit(resp) } :
       calls' = [calls EXCEPT ![t] =
                   IF remote.raises THEN finish(@, Raise)
                   ELSE IF remote.value = None THEN finish(@, Return(None))
                   ELSE [@ EXCEPT !.pc = "load", !.remote_sha = remote.value]]
  /\ UNCHANGED << remoteHead, repoFolder, cacheDir, urls, computed, last >>

\* lines 134-136: the cache file is read and the hit test made.  A file that
\* another call has opened for writing and not written yet is empty, and
\* json.loads raises on it
LoadCache(t) ==
  /\ calls[t].pc = "load"
  /\ \E p \in { _cache_path_for(calls[t].repo_url) } :
       calls' = [calls EXCEPT ![t] =
                   IF p \in DOMAIN cacheDir /\ cacheDir[p] = << >> THEN finish(@, Raise)
                   ELSE LET cached == _load_cached_stats(calls[t].repo_url, cacheDir)
                        IN  IF cache_hit(cached, calls[t].remote_sha[1])
                            THEN finish([@ EXCEPT !.cached = cached], Return(cached))
                            ELSE [@ EXCEPT !.pc = "exists", !.cached = cached]]
  /\ UNCHANGED << remoteHead, repoFolder, cacheDir, urls, computed, last >>

\* line 51 of _clone_or_fetch: local_path.exists()
CheckExists(t) ==
  /\ calls[t].pc = "exists"
  /\ calls' = [calls EXCEPT ![t] =
                 [@ EXCEPT !.pc = "update",
                           !.absent = ~exists(repo_name(calls[t].repo_url), repoFolder)]]
  /\ UNCHANGED << remoteHead, repoFolder, cacheDir, urls, computed, last >>

\* the command chosen by looking at the path again when the command is run
command_rechecked(absent, local_path, repo_folder) == update_command(local_path, repo_folder)

\* lines 51-54: the command _clone_or_fetch runs after what exists() told it
command_after(absent, local_path, repo_folder) == IF absent THEN "clone" ELSE "fetch"

\* the repo folder after `git clone` has succeeded.  Into a path that another
\* clone has made meanwhile, the files are those of this clone or of the other
clone_outcomes(repo_url, local_path, repo_folder, heads) ==
  LET r == git_remote(repo_url)[1]
  IN  { [d \in (DOMAIN repo_folder) \cup { local_path } |->
           IF d = local_path THEN WorkingCopy(r, heads[r]) ELSE repo_folder[d]] }
      \cup (IF local_path \in DOMAIN repo_folder THEN { repo_folder } ELSE {})

\* lines 52 and 54: the clone or the fetch, which succeeds or fails
Update(t) ==
  /\ calls[t].pc = "update"
  /\ \E ok \in BOOLEAN :
     \E local_path \in { repo_name(calls[t].repo_url) } :
     \E cmd \in { command_after(calls[t].absent, local_path, repoFolder) } :
       IF ~ok \/ (cmd = "clone" /\ (path_kind(local_path) /= "child"
                                      \/ git_remote(calls[t].repo_url) = None))
       THEN /\ calls' = [calls EXCEPT ![t] = finish([@ EXCEPT !.cmds = Append(@, cmd)], Raise)]
            /\ repoFolder' = repoFolder
       ELSE /\ calls' = [calls EXCEPT ![t] = [@ EXCEPT !.pc = "revparse", !.cmds = Append(@, cmd)]]
            /\ repoFolder' \in
                 (IF cmd = "clone"
                  THEN clone_outcomes(calls[t].repo_url, local_path, repoFolder, remoteHead)
                  ELSE { repoFolder })
  /\ UNCHANGED << remoteHead, cacheDir, urls, computed, last >>

\* line 140: rev-parse, which succeeds or fails
RevParse(t) ==
  /\ calls[t].pc = "revparse"
  /\ \E ok \in BOOLEAN :
       calls' = [calls EXCEPT ![t] =
                   IF ok THEN [@ EXCEPT !.pc = "walk", !.cmds = Append(@, "rev-parse")]
                   ELSE finish([@ EXCEPT !.cmds = Append(@, "rev-parse")], Raise)]
  /\ UNCHANGED << remoteHead, repoFolder, cacheDir, urls, computed, last >>

\* lines 142-153: the walks and the stats dict
WalkFiles(t) ==
  /\ calls[t].pc = "walk"
  /\ \E tree \in { tree_at(repo_name(calls[t].repo_url), repoFolder, cacheDir) } :
     \E counts \in { _file_counts(tree, DEFAULT_CODE_EXTS) } :
       calls' = [calls EXCEPT ![t] =
                   [@ EXCEPT !.pc = "open",
                             !.stats = Some(make_stats(calls[t].remote_sha[1], calls[t].repo_url,
                                                       counts[1], counts[2],
                                                       _repo_size_bytes(tree),
                                                       _lines_of_code(tree, DEFAULT_CODE_EXTS)))]]
  /\ UNCHANGED << remoteHead, repoFolder, cacheDir, urls, computed, last >>

\* lines 112-114, first half: write_text opens the file, which empties it
SaveOpen(t) ==
  /\ calls[t].pc = "open"
  /\ \E p \in { _cache_path_for(calls[t].repo_url) } :
       cacheDir' = [f \in (DOMAIN cacheDir) \cup { p } |-> IF f = p THEN << >> ELSE cacheDir[f]]
  /\ calls' = [calls EXCEPT ![t] = [@ EXCEPT !.pc = "write"]]
  /\ UNCHANGED << remoteHead, repoFolder, urls, computed, last >>

\* line 114, second half, and line 156: the text is written and stats returned
SaveWrite(t) ==
  /\ calls[t].pc = "write"
  /\ cacheDir' = _save_cached_stats(calls[t].repo_url, cacheDir, calls[t].stats[1])
  /\ calls' = [calls EXCEPT ![t] = finish(@, Return(calls[t].stats))]
  /\ UNCHANGED << remoteHead, repoFolder, urls, computed, last >>

\* the next statement of the call of thread t
Step(t) ==
  \/ Begin(t)
  \/ RemoteCommit(t)
  \/ LoadCache(t)
  \/ CheckExists(t)
  \/ Update(t)
  \/ RevParse(t)
  \/ WalkFiles(t)
  \/ SaveOpen(t)
  \/ SaveWrite(t)

NextRace == \E t \in Threads : Step(t)

SpecRace == InitRace /\ [][NextRace]_vars

(***************************************************************************)
(* Vocabulary of the properties.                                           *)
(***************************************************************************)
\* the value of an int or str member of a stats object
member(d, k) == dict_get(d, k)[1].v

\* the commit id a cache entry is tagged with: the commit id of its stats
entry_commit(entry) == dict_get(entry, K_Kommit)

\* the last operation was a request that called get_stats
Called == last.op = "request" /\ last.called

\* ... and get_stats got a remote commit id from the API
GotRemote == Called /\ last.remote_sha /= None

\* ... and get_stats returned a stats object
ReturnedStats == Called /\ ~last.out.raises /\ last.out.value /= None

\* the cache entry the call found is tagged with the remote commit id it saw
FreshEntry ==
  /\ GotRemote
  /\ last.cached /= None
  /\ entry_commit(last.cached[1]) = Some(Str_(last.remote_sha[1]))

\* the non-empty segments of the path of a URL on the supported host
path_segments(repo_url) ==
  SelectSeq(split(cut_at(Tail_from(repo_url, Len(HostPrefix) + 1), { "?", "#" }), "/"),
            LAMBDA seg : seg /= << >>)

\* the URL is not on the supported host, or has no owner and name segments
Unsupported(repo_url) ==
  ~startswith(repo_url, HostPrefix) \/ Len(path_segments(repo_url)) < 2

(***************************************************************************)
(* C1: when the remote commit id equals the commit id of the cache entry   *)
(* stored for the URL, get_stats runs no clone or fetch, rewrites nothing  *)
(* and returns the cached stats verbatim.  The code reads the entry's      *)
(* "commit" key, which no entry it writes has, so this fails.              *)
(***************************************************************************)
C1_FreshEntryIsReturned ==
  FreshEntry =>
    /\ last.trace.git = << >>
    /\ ~last.trace.cache_write
    /\ last.out = Return(last.cached)

(***************************************************************************)
(* C2: with a stale or absent cache entry, every stats object get_stats    *)
(* returns has total files >= code files, byte size >= 0 and the commit id *)
(* the API returned in that call.                                          *)
(***************************************************************************)
C2_MissStats ==
  (ReturnedStats /\ ~FreshEntry) =>
    LET stats == last.out.value[1]
    IN  /\ member(stats, K_VsegoFajlov) >= member(stats, K_FajlovSKodom)
        /\ member(stats, K_Bajt) >= 0
        /\ member(stats, K_Kommit) = last.resp.items[1].sha[1]

\* a stale entry was recomputed while the clone was at another commit
C2_Witness ==
  /\ ReturnedStats
  /\ last.cached /= None
  /\ ~FreshEntry
  /\ last.git.local_sha /= last.remote_sha[1]
  /\ member(last.out.value[1], K_FajlovSKodom) > 0

(***************************************************************************)
(* C3: for a URL that is not on the supported host or has fewer than two   *)
(* path segments, get_stats returns nothing, with no API request, no       *)
(* clone or fetch and no access to the cache or the repo folder.           *)
(***************************************************************************)
C3_UnsupportedUrlNoEffects ==
  (Called /\ Unsupported(last.repo[1])) =>
    /\ last.out = Return(None)
    /\ last.trace = NoTrace
    /\ cacheDir = EmptyDir
    /\ repoFolder = EmptyDir

\* a URL on the supported host with an owner and no name was refused
C3_Witness ==
  /\ Called
  /\ last.repo = Some(HostPrefix \o << "a", "/" >>)
  /\ last.out = Return(None)
  /\ last.trace.api = 0

(***************************************************************************)
(* C4: the metrics count each file outside every .git directory once in    *)
(* the total and in the byte size, count as code files those whose         *)
(* lower-cased extension is a code extension, sum the lines of those code  *)
(* files only, and leave out every file under a .git directory at any      *)
(* depth.                                                                  *)
(***************************************************************************)
\* the files of a tree that are under no directory named .git
outside_git(tree) == { f \in tree : \A i \in 1..Len(f.dirs) : f.dirs[i] /= DotGit }

\* the name ends, after at least one character, with a code extension in any
\* mix of cases
has_code_ext(name) ==
  \E ext \in DEFAULT_CODE_EXTS :
    /\ Len(name) > Len(ext)
    /\ lower(Tail_from(name, Len(name) - Len(ext) + 1)) = ext

C5_RoundTrip == last.op = "loaded" => last.loaded = Some(last.stats)

\* an object whose strings need escaping and whose numbers have a sign and
\* several digits came back
C5_Witness ==
  /\ last.op = "loaded"
  /\ member(last.stats, K_Kommit) = << "\"", "\\" >>
  /\ member(last.stats, K_Bajt) < 0
  /\ member(last.stats, K_VsegoFajlov) > 9
  /\ last.loaded = Some(last.stats)
  /\ Cardinality(DOMAIN cacheDir) = 2

(***************************************************************************)
(* C6: GET /repo without a repo parameter answers 400 with an error body   *)
(* and does not call get_stats; a malformed URL answers 500 with an error  *)
(* body; the handler answers 500 exactly when get_stats returns nothing.   *)
(***************************************************************************)
C6_HandlerStatus ==
  last.op = "request" =>
    /\ last.repo = None =>
         ~last.called /\ last.response = Return(Response(400, "error: no repo"))
    /\ (last.called /\ Unsupported(last.repo[1])) =>
         last.response = Return(Response(500, "error: no stats"))
    /\ last.called =>
         ((~last.response.raises /\ last.response.value.status = 500)
            <=> last.out = Return(None))

\* a malformed URL went through get_stats and was answered with the 500
C6_Witness ==
  /\ Called
  /\ Unsupported(last.repo[1])
  /\ last.response = Return(Response(500, "error: no stats"))

(***************************************************************************)
(* C7: a malformed or unsupported URL gets a 400 response, while           *)
(* RemoteUnavailable gets the generic 500.  The code gives both the 500.   *)
(***************************************************************************)
C7_InvalidRepoIs400 ==
  Called =>
    /\ Unsupported(last.repo[1]) =>
         (~last.response.raises /\ last.response.value.status = 400)
    /\ (~Unsupported(last.repo[1]) /\ last.out = Return(None)) =>
         last.response = Return(Response(500, "error: no stats"))

\* C7 as amended: whenever get_stats returns nothing, for a malformed or
\* unsupported URL as for a failed remote lookup, the response is the one
\* generic 500; a 400 is the answer to a missing or empty repo parameter only
C7_NothingIs500 ==
  last.op = "request" =>
    /\ (last.called /\ (Unsupported(last.repo[1]) \/ last.out = Return(None))) =>
         last.response = Return(Response(500, "error: no stats"))
    /\ (~last.response.raises /\ last.response.value.status = 400) =>
         (~last.called /\ (last.repo = None \/ last.repo[1] = << >>))

\* a URL on another host was answered with the generic 500
C7_Witness ==
  /\ Called
  /\ last.repo = Some(U_http)
  /\ last.response = Return(Response(500, "error: no stats"))

(***************************************************************************)
(* C8: when the commits lookup gets a non-success response or a malformed  *)
(* payload (not a list, an empty list, a first element without a commit    *)
(* id, a first element that is not an object), get_stats returns nothing,  *)
(* the endpoint answers 500, and there is no clone, fetch or cache write.  *)
(* The code raises on a first element that is not an object.               *)
(***************************************************************************)
\* the response is one of the cases C8 lists
BadLookup(resp) ==
  /\ ~resp.raised
  /\ \/ resp.status /= 200
     \/ resp.json = "dict"
     \/ resp.json = "list" /\ resp.items = << >>
     \/ resp.json = "list" /\ resp.items /= << >> /\ ~resp.items[1].is_dict
     \/ resp.json = "list" /\ resp.items /= << >> /\ resp.items[1].is_dict
          /\ resp.items[1].sha = None

C8_BadLookupReturnsNothing ==
  (Called /\ _repo_parts(last.repo[1]) /= None /\ BadLookup(last.resp)) =>
    /\ last.out = Return(None)
    /\ last.response = Return(Response(500, "error: no stats"))
    /\ last.trace.git = << >>
    /\ ~last.trace.cache_write

(***************************************************************************)
(* C9: the cache entry of a URL is created by the first successful         *)
(* computation for it and overwritten only by a call that saw a remote     *)
(* commit id different from the cached one; its commit id always equals    *)
(* the remote commit id of the most recent successful computation.         *)
(* Because of the key mismatch of C1 every successful call overwrites it.  *)
(***************************************************************************)
C9_CacheLifecycle ==
  /\ DOMAIN cacheDir = { _cache_path_for(u) : u \in DOMAIN computed }
  /\ \A u \in DOMAIN computed :
       entry_commit(json_loads(cacheDir[_cache_path_for(u)])) = Some(Str_(computed[u]))
  /\ (GotRemote /\ last.trace.cache_write /\ last.cached /= None) =>
       entry_commit(last.cached[1]) /= Some(Str_(last.remote_sha[1]))

(***************************************************************************)
(* C10: the commit id reported for the local clone has no influence: from  *)
(* the same cache, remote commit and working copies, a call of get_stats   *)
(* takes the same hit or miss decision, returns the same stats and leaves  *)
(* the same cache entry whatever rev-parse prints.                         *)
(***************************************************************************)
\* commit ids rev-parse can print besides the one of the working copy: the
\* first commit of a repository and an id no repository has
OtherShas == { sha(R_ab, 1), << "f", "f" >> }

\* what C10 compares of a call: its outcome, its trace and the cache it leaves
observable(result) == << result.out, result.trace, result.cache_dir >>

\* the calls that reach rev-parse: the URL is accepted and the API answers
\* with a commit id
ReachesRevParse(u, resp) ==
  /\ _repo_parts(u) /= None
  /\ ~_get_remote_commit(resp).raises
  /\ _get_remote_commit(resp).value /= None

C10_LocalCommitIgnored ==
  \A u \in urls : \A resp \in { x \in RespChoices(u) : ReachesRevParse(u, x) } :
    \A git \in { x \in GitChoices(u, resp) : x.update_ok /\ x.revparse_ok } :
      \A base \in { get_stats(u, repoFolder, cacheDir, remoteHead, resp, git) } :
        \A l \in OtherShas :
          observable(base)
            = observable(get_stats(u, repoFolder, cacheDir, remoteHead, resp,
                                   Git(TRUE, TRUE, l)))

\* a call has returned stats tagged with the remote commit id while the
\* clone was at another commit, and a further call can do so again
C10_Witness ==
  /\ ReturnedStats
  /\ last.git.local_sha /= last.remote_sha[1]
  /\ member(last.out.value[1], K_Kommit) = last.remote_sha[1]
  /\ entry_commit(json_loads(cacheDir[_cache_path_for(last.repo[1])]))
       = Some(Str_(last.remote_sha[1]))

(***************************************************************************)
(* C11: whenever get_stats writes a cache entry tagged with commit id c,   *)
(* the file, byte and line metrics of the entry are those of the           *)
(* repository content at commit c, also when the working copy was at an    *)
(* older commit before the call.  Stated for the calls whose working copy  *)
(* was cloned from the repository of the URL.  A fetch leaves the files of *)
(* the working copy where they were, so this fails.                        *)
(***************************************************************************)
\* the stats of the content of repository r at its n-th commit, for repo_url
stats_at(r, n, repo_url) ==
  LET files == outside_git(content_at(r, n))
      code  == { f \in files : has_code_ext(f.name) }
  IN  make_stats(sha(r, n), repo_url, Cardinality(files), Cardinality(code),
                 sum_sizes(files), sum_lines(code))

\* the last operation was a call of get_stats that wrote a cache entry
WroteEntry == Called /\ last.trace.cache_write

\* the working copy the last call walked
walked_copy == repoFolder[repo_name(last.repo[1])]

C11_EntryMetricsAtCommit ==
  (WroteEntry /\ git_remote(last.repo[1]) = Some(walked_copy.origin)) =>
    LET r == walked_copy.origin
    IN  /\ last.remote_sha[1] = sha(r, remoteHead[r])
        /\ json_loads(cacheDir[_cache_path_for(last.repo[1])])
             = stats_at(r, remoteHead[r], last.repo[1])

(***************************************************************************)
(* C12: the stats get_stats returns and caches for a URL are computed from *)
(* a working copy cloned from the repository of that URL, after any        *)
(* sequence of requests for different repositories.  The working copy is   *)
(* keyed by the last segment of the URL alone, so two owners' repositories *)
(* of one name share it and this fails.                                    *)
(***************************************************************************)
C12_WalksOwnRepository ==
  WroteEntry => git_remote(last.repo[1]) = Some(walked_copy.origin)

(***************************************************************************)
(* C14: for every URL https://github.com/<owner>/<name>, optionally        *)
(* followed by a .git suffix or a trailing slash, _repo_parts returns      *)
(* exactly (<owner>, <name>), both non-empty, and the remote commit lookup *)
(* asks for that owner and name, also when the name contains ".git"        *)
(* inside.  The code deletes every ".git" of the path, so this fails.      *)
(***************************************************************************)
C14_PartsAreOwnerAndName ==
  last.op = "lookup" =>
    /\ last.parts = Some(<< last.owner, last.name >>)
    /\ last.parts[1][1] /= << >> /\ last.parts[1][2] /= << >>
    /\ last.request
         = Some(<< "a","p","i",".","g","i","t","h","u","b",".","c","o","m","/","r","e","p","o","s","/" >>
                \o last.owner \o << "/" >> \o last.name
                \o << "/","c","o","m","m","i","t","s" >>)

(***************************************************************************)
(* C13: two distinct URLs accepted by _repo_parts never map to the same    *)
(* cache file, so the cache entry a call of get_stats reads, and the one   *)
(* it overwrites, was written for the URL of the call.  "/" and ":" are    *)
(* both written as "_", which the URL may contain itself, so this fails.   *)
(***************************************************************************)
C13_EntryOfOwnUrl ==
  (Called /\ last.trace.cache_read /\ last.cached /= None) =>
    member(last.cached[1], K_Repozitorij) = last.repo[1]

(***************************************************************************)
(* C15: for every URL accepted by _repo_parts, the path get_stats clones   *)
(* into, fetches in and walks is a direct child of the repo-storage        *)
(* directory, named by a non-empty segment other than "." or "..".  The    *)
(* last segment of the URL is used as it is, so this fails.                *)
(***************************************************************************)
C15_WorkingCopyIsChild ==
  (Called /\ _repo_parts(last.repo[1]) /= None /\ last.trace.folder_access) =>
    repo_name(last.repo[1]) \notin { << >>, << "." >>, << ".", "." >> }

(***************************************************************************)
(* C16: when clone or fetch, or rev-parse, fails during get_stats, the     *)
(* failure leaves get_stats and the handler as an exception and not as the *)
(* nothing/500 result, the failed command is not run again, and the cache  *)
(* is left exactly as it was before the call.                              *)
(***************************************************************************)
\* the record of a request in which a command of the version-control tool
\* failed
GitFailed(l) ==
  /\ l.op = "request" /\ l.called
  /\ l.trace.git /= << >>
  /\ ~l.git.update_ok \/ ~l.git.revparse_ok

C16_GitFailurePropagates ==
  [][ GitFailed(last') =>
        /\ last'.out = Raise
        /\ last'.response = Raise
        /\ last'.trace.git \in { << "clone" >>, << "fetch" >>,
                                 << "clone", "rev-parse" >>, << "fetch", "rev-parse" >> }
        /\ ~last'.git.update_ok => Len(last'.trace.git) = 1
        /\ ~last'.trace.cache_write
        /\ cacheDir' = cacheDir ]_vars

\* rev-parse failed after a fetch, in a call for a URL that has a cache
\* entry, and the entry is the one the call found
C16_Witness ==
  /\ Called
  /\ ~last.git.revparse_ok
  /\ last.trace.git = << "fetch", "rev-parse" >>
  /\ last.response = Raise
  /\ last.cached /= None
  /\ _load_cached_stats(last.repo[1], cacheDir) = last.cached

(***************************************************************************)
(* C17: concurrent calls of get_stats are not serialised.  Between the     *)
(* test local_path.exists() and the command it selects other calls run,    *)
(* and the command follows what the call itself saw and not what is there  *)
(* by then: a call that saw the working copy absent runs clone, one that   *)
(* saw it present runs fetch.  So two interleaved calls can both see the   *)
(* working copy absent and both clone into the same directory, and two     *)
(* calls on a miss both write the same cache file.                         *)
(***************************************************************************)
C17_ActsOnOwnObservation ==
  \A t \in DOMAIN calls :
    /\ calls[t].cmds /= << >> =>
         calls[t].cmds[1] = (IF calls[t].absent THEN "clone" ELSE "fetch")
    /\ (calls[t].pc = "done" /\ calls[t].stats /= None) =>
         /\ calls[t].out = Some(Return(calls[t].stats))
         /\ _cache_path_for(calls[t].repo_url) \in DOMAIN cacheDir

\* two calls for one URL have both seen the working copy absent while the
\* other was between its test and its command, both have run clone for the
\* same directory, and both have written the cache file of the URL
C17_Witness ==
  \E t1, t2 \in DOMAIN calls :
    /\ t1 /= t2
    /\ calls[t1].repo_url = calls[t2].repo_url
    /\ calls[t1].absent /\ calls[t2].absent
    /\ calls[t1].cmds /= << >> /\ calls[t2].cmds /= << >>
    /\ calls[t1].cmds[1] = "clone" /\ calls[t2].cmds[1] = "clone"
    /\ calls[t1].pc = "done" /\ calls[t2].pc = "done"
    /\ calls[t1].stats /= None /\ calls[t2].stats /= None
    /\ calls[t1].out = Some(Return(calls[t1].stats))
    /\ calls[t2].out = Some(Return(calls[t2].stats))

(***************************************************************************)
(* C18: on every cache miss get_stats performs exactly one working-copy    *)
(* update before walking the files, a shallow clone when the working-copy  *)
(* path does not exist and a fetch when it exists; after a successful miss *)
(* the working copy exists, and a later miss for the same path never       *)
(* clones again.                                                           *)
(***************************************************************************)
\* the record of a request whose call of get_stats went past the hit test
Missed(l) ==
  /\ l.op = "request" /\ l.called
  /\ l.trace.cache_read
  /\ ~cache_hit(l.cached, l.remote_sha[1])

\* the clone and fetch commands among cmds
updates(cmds) == SelectSeq(cmds, LAMBDA c : c \in { "clone", "fetch" })

C18_OneUpdatePerMiss ==
  [][ /\ \A d \in DOMAIN repoFolder : d \in DOMAIN repoFolder'
      /\ Missed(last') =>
           LET local_path == repo_name(last'.repo[1])
           IN  /\ updates(last'.trace.git)
                    = << IF exists(local_path, repoFolder) THEN "fetch" ELSE "clone" >>
               /\ last'.trace.git[1] \in { "clone", "fetch" }
               /\ (~last'.out.raises) =>
                    /\ exists(local_path, repoFolder')
                    /\ last'.out.value /= None ]_vars

\* a miss for a path that an earlier miss had cloned was served by a fetch
C18_Witness ==
  /\ ReturnedStats
  /\ Missed(last)
  /\ last.trace.git = << "fetch", "rev-parse" >>
  /\ last.cached /= None
  /\ repo_name(last.repo[1]) \in DOMAIN repoFolder

====
